---- MODULE Spec2Model ----
(***************************************************************************)
(* Model of src/main.py: an interactive command-line companion that builds *)
(* one google-genai client at import time (_build_client), then runs a     *)
(* read / request / print loop (main).                                     *)
(*                                                                         *)
(* Python strings are modelled as sequences of one-character strings, so   *)
(* that strip(), lower(), startswith() and re.fullmatch() are computed     *)
(* character by character.  A value of os.environ.get() is a record        *)
(* [present, s]: Absent models None, Some(s) models the string s.          *)
(***************************************************************************)
EXTENDS Integers, Sequences, FiniteSets, TLC

----------------------------------------------------------------------------
(* Bounds of the model.                                                    *)

\* Number of input lines the operator types before only end-of-input or an
\* interrupt remains.
MaxTurns == 2

\* Longest run of whitespace placed before / after a configured value.
MaxPad == 1

\* How far beyond the minimum tail length the generated API keys go.
TailSlack == 1

----------------------------------------------------------------------------
(* Characters and strings.                                                 *)

UpperCase ==
    <<"A", "B", "C", "D", "E", "F", "G", "H", "I", "J", "K", "L", "M", "N",
    "O", "P", "Q", "R", "S", "T", "U", "V", "W", "X", "Y", "Z">>

LowerCase ==
    <<"a", "b", "c", "d", "e", "f", "g", "h", "i", "j", "k", "l", "m", "n",
    "o", "p", "q", "r", "s", "t", "u", "v", "w", "x", "y", "z">>

Digits ==
    {"0", "1", "2", "3", "4", "5", "6", "7", "8", "9"}

\* The whitespace characters of the model's alphabet (str.strip() with no
\* argument removes whitespace from both ends).
Whitespace == {" ", "\t"}

Range(s) == {s[i] : i \in 1..Len(s)}

\* str.lower(), one character.
LowerChar(c) ==
    IF \E i \in 1..Len(UpperCase) : UpperCase[i] = c
    THEN LowerCase[CHOOSE i \in 1..Len(UpperCase) : UpperCase[i] = c]
    ELSE c

\* str.lower()
Lower(s) == [i \in 1..Len(s) |-> LowerChar(s[i])]

RECURSIVE LStrip(_)
LStrip(s) ==
    IF s # <<>> /\ Head(s) \in Whitespace THEN LStrip(Tail(s)) ELSE s

RECURSIVE RStrip(_)
RStrip(s) ==
    IF s # <<>> /\ s[Len(s)] \in Whitespace
    THEN RStrip(SubSeq(s, 1, Len(s) - 1))
    ELSE s

\* str.strip()
Strip(s) == RStrip(LStrip(s))

\* str.startswith(prefix)
StartsWith(s, prefix) ==
    /\ Len(s) >= Len(prefix)
    /\ SubSeq(s, 1, Len(prefix)) = prefix

\* os.environ.get(name): None when the variable is not set.
Absent == [present |-> FALSE, s |-> <<>>]
Some(s) == [present |-> TRUE, s |-> s]

\* Python truthiness of an optional string: None and "" are falsy.
Truthy(v) == v.present /\ v.s # <<>>

\* a or b
OrElse(a, b) == IF Truthy(a) THEN a ELSE b

\* str(value): str(None) is the four characters "None".
Str(v) == IF v.present THEN v.s ELSE <<"N", "o", "n", "e">>

----------------------------------------------------------------------------
(* _as_bool                                                                *)

TrueWords ==
    { <<"1">>, <<"t", "r", "u", "e">>, <<"y", "e", "s">>, <<"o", "n">> }

\* _as_bool without the .lower() call.
_as_bool_case_sensitive(value) == Strip(Str(value)) \in TrueWords

\* def _as_bool(value): return str(value).strip().lower() in {...}
_as_bool(value) == Lower(Strip(Str(value))) \in TrueWords

----------------------------------------------------------------------------
(* _validate_developer_api_key                                             *)

blocked_prefixes ==
    { <<"B", "e", "a", "r", "e", "r", " ">>,
      <<"y", "a", "2", "9", ".">>,
      <<"a", "u", "t", "h", "_", "t", "o", "k", "e", "n", "s", "/">>,
      <<"A", "Q", ".">> }

KeyLiteral == <<"A", "I", "z", "a">>

\* The character class [0-9A-Za-z_-]
KeyChars == Digits \cup Range(UpperCase) \cup Range(LowerCase) \cup {"_", "-"}

\* The {20,} quantifier of the key regex.
MinKeyTail == 20

\* Number of leading characters of s that are in the class cs (greedy).
RECURSIVE RunLength(_, _)
RunLength(s, cs) ==
    IF s # <<>> /\ Head(s) \in cs THEN 1 + RunLength(Tail(s), cs) ELSE 0

\* re.fullmatch(r"AIza[0-9A-Za-z_-]{20,}", s): the literal, then a greedy
\* run of class characters of at least MinKeyTail, then the end of s.
FullMatchKey(s) ==
    /\ StartsWith(s, KeyLiteral)
    /\ LET rest == SubSeq(s, Len(KeyLiteral) + 1, Len(s))
           n == RunLength(rest, KeyChars)
       IN  n >= MinKeyTail /\ n = Len(rest)

\* _validate_developer_api_key without the re.fullmatch check.
_validate_prefixes_only(api_key) ==
    LET normalized == Strip(api_key) IN
    IF \E prefix \in blocked_prefixes : StartsWith(normalized, prefix)
    THEN [ok |-> FALSE, key |-> <<>>, error |-> "oauth_token"]
    ELSE [ok |-> TRUE, key |-> normalized, error |-> "none"]

\* _validate_developer_api_key(api_key): the normalized key, or the
\* EnvironmentError it raises.
_validate_developer_api_key(api_key) ==
    LET normalized == Strip(api_key) IN
    IF \E prefix \in blocked_prefixes : StartsWith(normalized, prefix)
    THEN [ok |-> FALSE, key |-> <<>>, error |-> "oauth_token"]
    ELSE IF ~FullMatchKey(normalized)
    THEN [ok |-> FALSE, key |-> <<>>, error |-> "bad_format"]
    ELSE [ok |-> TRUE, key |-> normalized, error |-> "none"]

----------------------------------------------------------------------------
(* _generate_answer                                                        *)

FallbackAnswer ==
    <<"I", " ", "c", "o", "u", "l", "d", "n", "'", "t", " ", "g", "e", "n",
    "e", "r", "a", "t", "e", " ", "a", " ", "t", "e", "x", "t", " ", "r",
    "e", "s", "p", "o", "n", "s", "e", " ", "f", "o", "r", " ", "t", "h",
    "a", "t", " ", "p", "r", "o", "m", "p", "t", ".", " ", "P", "l", "e",
    "a", "s", "e", " ", "t", "r", "y", " ", "r", "e", "p", "h", "r", "a",
    "s", "i", "n", "g", ".">>

\* _generate_answer returning the trimmed text even when it is empty.
_generate_answer_no_fallback(text) ==
    Strip(IF Truthy(text) THEN text.s ELSE <<>>)

\* The value _generate_answer returns when generate_content returned a
\* response whose .text is `text` (None when the reply has no text part).
_generate_answer(text) ==
    LET stripped == Strip(IF Truthy(text) THEN text.s ELSE <<>>) IN
    IF stripped # <<>> THEN stripped ELSE FallbackAnswer

----------------------------------------------------------------------------
(* _build_client                                                           *)

\* os.environ.get(name, default)
GetOr(v, default) == IF v.present THEN v.s ELSE default

DefaultModel ==
    <<"g", "e", "m", "i", "n", "i", "-", "2", ".", "5", "-", "f", "l", "a", "s", "h">>

DefaultLocation ==
    <<"u", "s", "-", "c", "e", "n", "t", "r", "a", "l", "1">>

NoClient ==
    [mode |-> "none", api_key |-> <<>>, project |-> <<>>, location |-> <<>>]

\* genai.Client(api_key=api_key)
ApiKeyClient(api_key) ==
    [mode |-> "api_key", api_key |-> api_key, project |-> <<>>,
     location |-> <<>>]

\* genai.Client(vertexai=True, project=project, location=location)
VertexClient(project, location) ==
    [mode |-> "vertex", api_key |-> <<>>, project |-> project,
     location |-> location]

\* What _build_client does: ok with (client, model), or the EnvironmentError
\* it raises.  adc_called records whether google.auth.default() was reached,
\* fallback whether the fallback notice was printed.
BuildResult(ok, c, m, err, uv, called, fb) ==
    [ok |-> ok, client |-> c, model |-> m, error |-> err, use_vertex |-> uv,
     adc_called |-> called, fallback |-> fb]

\* _build_client with the project check made only once credentials have
\* resolved.
_build_client_late_project_check(environ, adc) ==
    LET model_ == GetOr(environ.GEMINI_MODEL, DefaultModel)
        use_vertex_ == _as_bool(environ.GOOGLE_GENAI_USE_VERTEXAI)
        api_key == OrElse(environ.GOOGLE_API_KEY, environ.GEMINI_API_KEY)
        project == environ.GOOGLE_CLOUD_PROJECT
        location == GetOr(environ.GOOGLE_CLOUD_LOCATION, DefaultLocation)
        checked == _validate_developer_api_key(api_key.s)
        Fail(err, called, fb) ==
            BuildResult(FALSE, NoClient, model_, err, use_vertex_, called, fb)
        Key(called, fb) ==
            IF checked.ok
            THEN BuildResult(TRUE, ApiKeyClient(checked.key), model_, "none",
                             use_vertex_, called, fb)
            ELSE Fail(checked.error, called, fb)
    IN
    IF use_vertex_
    THEN IF adc = "DefaultCredentialsError"
         THEN IF Truthy(api_key)
              THEN Key(TRUE, TRUE)
              ELSE Fail("adc_not_found", TRUE, FALSE)
         ELSE IF ~Truthy(project)
              THEN Fail("project_required", TRUE, FALSE)
              ELSE BuildResult(TRUE, VertexClient(project.s, location),
                               model_, "none", use_vertex_, TRUE, FALSE)
    ELSE IF ~Truthy(api_key)
         THEN Fail("api_key_not_set", FALSE, FALSE)
         ELSE Key(FALSE, FALSE)

\* _build_client whose fallback path uses the key without validating it.
_build_client_unvalidated_fallback(environ, adc) ==
    LET model_ == GetOr(environ.GEMINI_MODEL, DefaultModel)
        use_vertex_ == _as_bool(environ.GOOGLE_GENAI_USE_VERTEXAI)
        api_key == OrElse(environ.GOOGLE_API_KEY, environ.GEMINI_API_KEY)
        project == environ.GOOGLE_CLOUD_PROJECT
        location == GetOr(environ.GOOGLE_CLOUD_LOCATION, DefaultLocation)
        checked == _validate_developer_api_key(api_key.s)
        Fail(err, called, fb) ==
            BuildResult(FALSE, NoClient, model_, err, use_vertex_, called, fb)
        Key(called, fb) ==
            IF checked.ok
            THEN BuildResult(TRUE, ApiKeyClient(checked.key), model_, "none",
                             use_vertex_, called, fb)
            ELSE Fail(checked.error, called, fb)
    IN
    IF use_vertex_
    THEN IF ~Truthy(project)
         THEN Fail("project_required", FALSE, FALSE)
         ELSE IF adc = "DefaultCredentialsError"
              THEN IF Truthy(api_key)
                   THEN BuildResult(TRUE, ApiKeyClient(api_key.s), model_,
                                    "none", use_vertex_, TRUE, TRUE)
                   ELSE Fail("adc_not_found", TRUE, FALSE)
              ELSE BuildResult(TRUE, VertexClient(project.s, location),
                               model_, "none", use_vertex_, TRUE, FALSE)
    ELSE IF ~Truthy(api_key)
         THEN Fail("api_key_not_set", FALSE, FALSE)
         ELSE Key(FALSE, FALSE)

\* _build_client(), reading the environment `environ`; `adc` is the outcome
\* of google.auth.default() in the hosting environment: "found", or
\* "DefaultCredentialsError".
_build_client(environ, adc) ==
    LET model_ == GetOr(environ.GEMINI_MODEL, DefaultModel)
        use_vertex_ == _as_bool(environ.GOOGLE_GENAI_USE_VERTEXAI)
        api_key == OrElse(environ.GOOGLE_API_KEY, environ.GEMINI_API_KEY)
        project == environ.GOOGLE_CLOUD_PROJECT
        location == GetOr(environ.GOOGLE_CLOUD_LOCATION, DefaultLocation)
        checked == _validate_developer_api_key(api_key.s)
        Fail(err, called, fb) ==
            BuildResult(FALSE, NoClient, model_, err, use_vertex_, called, fb)
        Key(called, fb) ==
            IF checked.ok
            THEN BuildResult(TRUE, ApiKeyClient(checked.key), model_, "none",
                             use_vertex_, called, fb)
            ELSE Fail(checked.error, called, fb)
    IN
    IF use_vertex_
    THEN IF ~Truthy(project)
         THEN Fail("project_required", FALSE, FALSE)
         ELSE IF adc = "DefaultCredentialsError"
              THEN IF Truthy(api_key)
                   THEN Key(TRUE, TRUE)
                   ELSE Fail("adc_not_found", TRUE, FALSE)
              ELSE BuildResult(TRUE, VertexClient(project.s, location),
                               model_, "none", use_vertex_, TRUE, FALSE)
    ELSE IF ~Truthy(api_key)
         THEN Fail("api_key_not_set", FALSE, FALSE)
         ELSE Key(FALSE, FALSE)

----------------------------------------------------------------------------
(* The inputs of the model: environments, input lines, replies.            *)

\* A run of n whitespace characters, alternating space and tab.
Pad(n) == [i \in 1..n |-> IF i % 2 = 1 THEN " " ELSE "\t"]

\* The members of S with up to MaxPad whitespace characters on each side.
Padded(S) ==
    { Pad(l) \o s \o Pad(r) : l \in 0..MaxPad, s \in S, r \in 0..MaxPad }

\* Flag values: the accepted words in several letter cases, near misses,
\* and the four characters "None".
FlagWords ==
    { <<"1">>, <<"t", "r", "u", "e">>, <<"T", "R", "U", "E">>,
      <<"T", "r", "u", "e">>, <<"y", "e", "s">>, <<"Y", "E", "S">>,
      <<"o", "n">>, <<"O", "N">>, <<"O", "n">>,
      <<>>, <<"0">>, <<"f", "a", "l", "s", "e">>, <<"t", "r", "u">>,
      <<"o", " ", "n">>, <<"1", "1">>, <<"N", "o", "n", "e">> }

FlagValues == { Absent } \cup { Some(s) : s \in Padded(FlagWords) }

\* n characters, cycling through a few members of the key class.
TailOf(n) ==
    [i \in 1..n |-> CASE i % 4 = 0 -> "_" [] i % 4 = 1 -> "x"
                      [] i % 4 = 2 -> "7" [] OTHER -> "-"]

KeyHeads ==
    { KeyLiteral, <<"A", "I", "z", "b">>, <<"a", "i", "z", "a">>,
      <<"B", "e", "a", "r", "e", "r", " ">>,
      <<"y", "a", "2", "9", ".">>,
      <<"a", "u", "t", "h", "_", "t", "o", "k", "e", "n", "s", "/">>,
      <<"A", "Q", ".">> }

KeyTails ==
    { TailOf(n) : n \in {0} \cup ((MinKeyTail - 1)..(MinKeyTail + TailSlack)) }
    \cup { TailOf(MinKeyTail) \o <<"!">>,
           TailOf(MinKeyTail - 1) \o <<" ">> \o TailOf(1),
           <<"!">> \o TailOf(MinKeyTail) }

KeyStrings == Padded({ h \o t : h \in KeyHeads, t \in KeyTails })

KeyValues ==
    { Absent, Some(<<>>), Some(<<" ">>) } \cup { Some(s) : s \in KeyStrings }

GoodKey == KeyLiteral \o TailOf(MinKeyTail)
OtherGoodKey == KeyLiteral \o TailOf(MinKeyTail + 1)
TokenKey == <<"y", "a", "2", "9", ".">> \o TailOf(MinKeyTail)

ProjectName == <<"p", "r", "j">>
ModelName == <<"m", "1">>

Environ(m, flag, key, alias, project, location) ==
    [GEMINI_MODEL |-> m, GOOGLE_GENAI_USE_VERTEXAI |-> flag,
     GOOGLE_API_KEY |-> key, GEMINI_API_KEY |-> alias,
     GOOGLE_CLOUD_PROJECT |-> project, GOOGLE_CLOUD_LOCATION |-> location]

AdcOutcomes == { "found", "DefaultCredentialsError" }

Configuration(e, adc) == [environ |-> e, adc |-> adc]

\* Configurations that vary every setting over a few values each.
MixedConfigurations ==
    { Configuration(Environ(m, flag, key, alias, project, Absent), adc) :
        m \in { Absent, Some(ModelName) },
        flag \in { Absent, Some(<<"t", "r", "u", "e">>) },
        key \in { Absent, Some(<<>>), Some(GoodKey), Some(TokenKey),
                  Some(KeyLiteral) },
        alias \in { Absent, Some(OtherGoodKey) },
        project \in { Absent, Some(<<>>), Some(ProjectName) },
        adc \in AdcOutcomes }

\* Configurations that vary the flag over FlagValues, with no API key and
\* no ambient credentials: the flag decides which setting is reported
\* missing.
FlagConfigurations ==
    { Configuration(Environ(Absent, flag, Absent, Absent, project,
                            Some(<<"e", "u">>)), "DefaultCredentialsError") :
        flag \in FlagValues,
        project \in { Absent, Some(ProjectName) } }

\* Configurations that vary the API key over KeyValues, in key mode and in
\* managed mode without ambient credentials.
KeyConfigurations ==
    { Configuration(Environ(Absent, flag, key, Absent, Some(ProjectName),
                            Absent), "DefaultCredentialsError") :
        flag \in { Absent, Some(<<"1">>) },
        key \in KeyValues }

Configurations ==
    MixedConfigurations \cup FlagConfigurations \cup KeyConfigurations

Quit == <<"q", "u", "i", "t">>
Question == <<"h", "i", "?">>

\* Lines the operator may type.
InputLines ==
    { <<>>, <<" ", "\t">>, Quit, <<" ", "E", "x", "i", "t", "\t">>,
      <<" ">> \o Question, <<"q", "u", "i", "t", "s">> }

\* Values of response.text.
ReplyTexts ==
    { Absent, Some(<<>>), Some(<<" ", "\t">>), Some(<<"o", "k">>),
      Some(<<" ", "o", " ", "k", "\t">>) }

\* HTTP status codes of a failed request.
FailureStatuses == { 400, 429, 503 }

----------------------------------------------------------------------------
(* The session.                                                            *)

VARIABLES
    environ,        \* os.environ after load_dotenv
    credentials,    \* what google.auth.default() does in this environment
    pc,             \* "startup", "input", "request", "done",
                    \* "config_error", "crashed"
    build,          \* the outcome of _build_client
    builds,         \* number of calls of _build_client
    client,         \* module global client
    model,          \* module global model
    user_input,     \* main's local user_input
    lines,          \* the raw lines read so far
    prompts,        \* number of "You: " prompts shown
    requests,       \* number of generate_content calls
    last_request,   \* arguments of the latest generate_content call
    response_text,  \* response.text of the latest successful request
    answer,         \* the latest value returned by _generate_answer
    failure,        \* HTTP status that failed this turn's request, 0 if none
    replies,        \* number of "Bot:" blocks printed
    errors,         \* number of "Error:" blocks printed
    farewells,      \* number of "Goodbye!" lines printed
    signal,         \* latest operator event: "none", "eof", "interrupt"
    exit_code       \* process exit status, -1 while running

vars ==
    << environ, credentials, pc, build, builds, client, model, user_input,
       lines, prompts, requests, last_request, response_text, answer,
       failure, replies, errors, farewells, signal, exit_code >>

NoRequest == [client |-> NoClient, model |-> <<>>, question |-> <<>>]

NotBuilt == BuildResult(FALSE, NoClient, <<>>, "pending", FALSE, FALSE, FALSE)

Init ==
    /\ \E cfg \in Configurations :
        /\ environ = cfg.environ
        /\ credentials = cfg.adc
    /\ pc = "startup"
    /\ build = NotBuilt
    /\ builds = 0
    /\ client = NoClient
    /\ model = <<>>
    /\ user_input = <<>>
    /\ lines = <<>>
    /\ prompts = 0
    /\ requests = 0
    /\ last_request = NoRequest
    /\ response_text = Absent
    /\ answer = <<>>
    /\ failure = 0
    /\ replies = 0
    /\ errors = 0
    /\ farewells = 0
    /\ signal = "none"
    /\ exit_code = -1

\* The client built on first use, so that main() starts whatever the
\* outcome of _build_client.
ModuleLevelLazy(result) == "input"

\* Line 107 runs at import: an exception raised there ends the process
\* before main() is called.
ModuleLevel(result) == IF result.ok THEN "input" ELSE "config_error"

\* client, model = _build_client(), then main() up to its first input().
Startup ==
    /\ pc = "startup"
    /\ LET result == _build_client(environ, credentials) IN
        /\ build' = result
        /\ builds' = builds + 1
        /\ client' = result.client
        /\ model' = IF result.ok THEN result.model ELSE <<>>
        /\ pc' = ModuleLevel(result)
        /\ prompts' = IF pc' = "input" THEN prompts + 1 ELSE prompts
        /\ exit_code' = IF pc' = "input" THEN -1 ELSE 1
    /\ UNCHANGED << environ, credentials, user_input, lines, requests,
                    last_request, response_text, answer, failure, replies,
                    errors, farewells, signal >>

\* user_input.lower() in {"quit", "exit"}
IsExit(s) == Lower(s) \in { Quit, <<"e", "x", "i", "t">> }

\* A client built again for each request, once ambient credentials are gone.
RequestArgsRebuilt(question) ==
    LET again == _build_client(environ, "DefaultCredentialsError") IN
    [client |-> again.client, model |-> again.model, question |-> question]

\* The arguments of _generate_answer(client, model, user_input).
RequestArgs(question) ==
    [client |-> client, model |-> model, question |-> question]

\* input() returns `line`: lines 121-134 up to the generate_content call.
ReadLine(line) ==
    /\ pc = "input"
    /\ Len(lines) < MaxTurns
    /\ lines' = Append(lines, line)
    /\ user_input' = Strip(line)
    /\ signal' = "none"
    /\ failure' = 0
    /\ IF user_input' = <<>>
       THEN /\ pc' = "input"
            /\ prompts' = prompts + 1
            /\ UNCHANGED << farewells, exit_code, requests, last_request >>
       ELSE IF IsExit(user_input')
       THEN /\ pc' = "done"
            /\ farewells' = farewells + 1
            /\ exit_code' = 0
            /\ UNCHANGED << prompts, requests, last_request >>
       ELSE /\ pc' = "request"
            /\ requests' = requests + 1
            /\ last_request' = RequestArgs(user_input')
            /\ UNCHANGED << prompts, farewells, exit_code >>
    /\ UNCHANGED << environ, credentials, build, builds, client, model,
                    response_text, answer, replies, errors >>

\* input() raises EOFError (eof) or KeyboardInterrupt (interrupt).
InputEnds(event) ==
    /\ pc = "input"
    /\ signal' = event
    /\ farewells' = farewells + 1
    /\ pc' = "done"
    /\ exit_code' = 0
    /\ UNCHANGED << environ, credentials, build, builds, client, model,
                    user_input, lines, prompts, requests, last_request,
                    response_text, answer, failure, replies, errors >>

\* generate_content returns a response whose .text is `text`; the reply is
\* printed and the loop prompts again.
RequestSucceeds(text) ==
    /\ pc = "request"
    /\ response_text' = text
    /\ answer' = _generate_answer(text)
    /\ failure' = 0
    /\ replies' = replies + 1
    /\ prompts' = prompts + 1
    /\ pc' = "input"
    /\ UNCHANGED << environ, credentials, build, builds, client, model,
                    user_input, lines, requests, last_request, errors,
                    farewells, signal, exit_code >>

\* The exception class google.genai.errors raises for an HTTP status.
ErrorClass(status) ==
    IF status >= 400 /\ status < 500 THEN "ClientError"
    ELSE IF status >= 500 /\ status < 600 THEN "ServerError"
    ELSE "APIError"

\* except errors.ClientError
Caught(class) == class = "ClientError"

\* generate_content raises for a response with HTTP status `status`.
RequestFails(status) ==
    /\ pc = "request"
    /\ failure' = status
    /\ IF Caught(ErrorClass(status))
       THEN /\ errors' = errors + 1
            /\ prompts' = prompts + 1
            /\ pc' = "input"
            /\ UNCHANGED exit_code
       ELSE /\ pc' = "crashed"
            /\ exit_code' = 1
            /\ UNCHANGED << errors, prompts >>
    /\ UNCHANGED << environ, credentials, build, builds, client, model,
                    user_input, lines, requests, last_request,
                    response_text, answer, replies, farewells, signal >>

\* The operator interrupts while generate_content is blocked: the
\* KeyboardInterrupt is raised inside the try of line 133, whose only
\* handler is for errors.ClientError, and leaves main() uncaught.
InterruptInFlight ==
    /\ pc = "request"
    /\ signal' = "interrupt"
    /\ pc' = "crashed"
    /\ exit_code' = 130
    /\ UNCHANGED << environ, credentials, build, builds, client, model,
                    user_input, lines, prompts, requests, last_request,
                    response_text, answer, failure, replies, errors,
                    farewells >>

Next ==
    \/ Startup
    \/ \E line \in InputLines : ReadLine(line)
    \/ \E event \in { "eof", "interrupt" } : InputEnds(event)
    \/ \E text \in ReplyTexts : RequestSucceeds(text)
    \/ \E status \in FailureStatuses : RequestFails(status)
    \/ InterruptInFlight

Spec == Init /\ [][Next]_vars

----------------------------------------------------------------------------
(* Vocabulary of the properties.                                           *)

Started == pc # "startup"

\* The key the configuration supplies: the primary variable, else the alias.
ConfiguredKey == OrElse(environ.GOOGLE_API_KEY, environ.GEMINI_API_KEY)

\* c and d are the same character, or the two cases of one letter.
SameLetter(c, d) ==
    \/ c = d
    \/ \E k \in 1..Len(UpperCase) : {c, d} = {UpperCase[k], LowerCase[k]}

EqualsIgnoringCase(a, b) ==
    /\ Len(a) = Len(b)
    /\ \A i \in 1..Len(a) : SameLetter(a[i], b[i])

IsBlank(s) == \A i \in 1..Len(s) : s[i] \in Whitespace

\* The positions of s that hold a character other than whitespace.
Ink(s) == { i \in 1..Len(s) : s[i] \notin Whitespace }

\* s from its first to its last character other than whitespace; empty when
\* s has none.
Trimmed(s) ==
    IF Ink(s) = {} THEN <<>>
    ELSE SubSeq(s, CHOOSE i \in Ink(s) : \A k \in Ink(s) : i <= k,
                   CHOOSE j \in Ink(s) : \A k \in Ink(s) : j >= k)

\* s is the literal "AIza" followed by at least MinKeyTail key characters.
MatchesKeyPattern(s) ==
    /\ Len(s) >= Len(KeyLiteral) + MinKeyTail
    /\ \A i \in 1..Len(s) :
        IF i <= Len(KeyLiteral) THEN s[i] = KeyLiteral[i] ELSE s[i] \in KeyChars

ConfigErrors ==
    { "project_required", "api_key_not_set", "oauth_token", "bad_format",
      "adc_not_found" }

----------------------------------------------------------------------------
(* C1: every failure of the API request during a turn, a server-side error *)
(* included, is caught at the turn boundary and reported, and the session  *)
(* goes on: a failed request never terminates the process.                 *)
C1_FailedTurnContinues ==
    failure # 0 => /\ pc # "crashed"
                   /\ errors >= 1

(* C2: after startup, an end-of-input or an operator interrupt - at the    *)
(* prompt or while a request is in flight - ends the session with the      *)
(* farewell and exit code 0, never by an uncaught exception.               *)
C2_SignalEndsGracefully ==
    signal # "none" => /\ pc = "done"
                       /\ farewells = 1
                       /\ exit_code = 0

(* C3: when _build_client raises a configuration error the process ends at *)
(* startup: no prompt is shown, no line is read, no request is sent.       *)
C3_ConfigErrorStopsAtStartup ==
    (builds > 0 /\ ~build.ok) =>
        /\ build.error \in ConfigErrors
        /\ pc = "config_error"
        /\ exit_code = 1
        /\ prompts = 0
        /\ lines = <<>>
        /\ requests = 0

C3_Witness ==
    /\ pc = "config_error"
    /\ build.error = "adc_not_found"

(* C4: managed mode requested with the project absent or empty fails with  *)
(* a configuration error and no client, whatever the credentials and the   *)
(* API key are, before credential resolution is attempted.                 *)
C4_MissingProjectFails ==
    (Started /\ build.use_vertex /\ ~Truthy(environ.GOOGLE_CLOUD_PROJECT)) =>
        /\ ~build.ok
        /\ build.error = "project_required"
        /\ client = NoClient
        /\ ~build.adc_called
        /\ pc = "config_error"

C4_Witness ==
    /\ pc = "config_error"
    /\ build.use_vertex
    /\ ~Truthy(environ.GOOGLE_CLOUD_PROJECT)
    /\ credentials = "DefaultCredentialsError"
    /\ MatchesKeyPattern(ConfiguredKey.s)

(* C5: managed mode, project set, credential resolution failed: with a key *)
(* configured the client is an API-key client exactly when the key passes  *)
(* the key-mode validation, and a configuration error otherwise; with no   *)
(* key it is a configuration error; never a managed-credential client.     *)
C5_FallbackValidatesKey ==
    ( /\ Started
      /\ build.use_vertex
      /\ Truthy(environ.GOOGLE_CLOUD_PROJECT)
      /\ credentials = "DefaultCredentialsError" ) =>
        /\ client.mode # "vertex"
        /\ IF Truthy(ConfiguredKey)
           THEN LET checked == _validate_developer_api_key(ConfiguredKey.s) IN
                /\ build.ok <=> checked.ok
                /\ build.ok => client = ApiKeyClient(checked.key)
                /\ ~build.ok => /\ client = NoClient
                                /\ build.error = checked.error
                                /\ build.error \in {"oauth_token", "bad_format"}
           ELSE /\ ~build.ok
                /\ client = NoClient
                /\ build.error = "adc_not_found"

C5_Witness ==
    /\ pc = "input"
    /\ build.use_vertex
    /\ credentials = "DefaultCredentialsError"
    /\ build.fallback
    /\ client.mode = "api_key"

(* C6 as stated: in API-key mode construction succeeds exactly for the     *)
(* configured keys that match the vendor pattern, and fails for every key  *)
(* with a blocked prefix and every other key that does not match.          *)
C6_Original ==
    (Started /\ ~build.use_vertex /\ Truthy(ConfiguredKey)) =>
        /\ MatchesKeyPattern(ConfiguredKey.s) => build.ok
        /\ (\E prefix \in blocked_prefixes :
                StartsWith(ConfiguredKey.s, prefix)) => ~build.ok
        /\ ~MatchesKeyPattern(ConfiguredKey.s) => ~build.ok

(* C6 amended: in API-key mode construction succeeds exactly for the       *)
(* configured keys that match the vendor pattern once leading and trailing *)
(* whitespace is removed, and the client holds the trimmed key; every key  *)
(* with a blocked prefix and every other key whose trimmed form does not   *)
(* match is a configuration error, and a rejected key builds no client.    *)
C6_TrimmedKeyDecides ==
    (Started /\ ~build.use_vertex /\ Truthy(ConfiguredKey)) =>
        LET key == ConfiguredKey.s IN
        /\ build.ok <=> MatchesKeyPattern(Trimmed(key))
        /\ build.ok => /\ client.mode = "api_key"
                       /\ client.api_key = Trimmed(key)
                       /\ pc # "config_error"
        /\ (\E prefix \in blocked_prefixes : StartsWith(key, prefix))
               => ~build.ok
        /\ ~build.ok => /\ client = NoClient
                        /\ pc = "config_error"
                        /\ build.error \in {"oauth_token", "bad_format"}
                        /\ requests = 0

C6_Witness ==
    /\ pc = "input"
    /\ ~build.use_vertex
    /\ client.mode = "api_key"
    /\ ConfiguredKey.s # client.api_key
    /\ Len(client.api_key) = Len(KeyLiteral) + MinKeyTail

(* C7 as stated: _as_bool is true exactly for the strings that equal one   *)
(* of "1", "true", "yes", "on" up to letter case, and false for all else.  *)
C7_Original ==
    Started =>
        ( build.use_vertex <=>
            /\ environ.GOOGLE_GENAI_USE_VERTEXAI.present
            /\ \E w \in TrueWords :
                EqualsIgnoringCase(environ.GOOGLE_GENAI_USE_VERTEXAI.s, w) )

(* C7 amended: _as_bool is true exactly for the strings that equal one of  *)
(* "1", "true", "yes", "on" up to letter case and up to leading and        *)
(* trailing whitespace; it is false for every other string, the empty      *)
(* string and an absent value included.                                    *)
C7_TrueUpToCaseAndPadding ==
    Started =>
        LET flag == environ.GOOGLE_GENAI_USE_VERTEXAI IN
        ( build.use_vertex <=>
            /\ flag.present
            /\ \E w \in TrueWords : EqualsIgnoringCase(Trimmed(flag.s), w) )

C7_Witness ==
    /\ Started
    /\ build.use_vertex
    /\ environ.GOOGLE_GENAI_USE_VERTEXAI.s # Lower(environ.GOOGLE_GENAI_USE_VERTEXAI.s)
    /\ Head(environ.GOOGLE_GENAI_USE_VERTEXAI.s) \in Whitespace

(* C8: a successful request returns a non-empty string with no leading or  *)
(* trailing whitespace: the trimmed reply text when there is any, and the  *)
(* fixed rephrase message when the text is absent, empty or whitespace.    *)
C8_AnswerNeverEmpty ==
    replies > 0 =>
        /\ answer # <<>>
        /\ answer[1] \notin Whitespace
        /\ answer[Len(answer)] \notin Whitespace
        /\ IF response_text.present /\ ~IsBlank(response_text.s)
           THEN answer = Trimmed(response_text.s)
           ELSE answer = FallbackAnswer

C8_Witness ==
    /\ replies > 0
    /\ response_text.present
    /\ response_text.s # <<>>
    /\ IsBlank(response_text.s)
    /\ answer = FallbackAnswer

\* The lines read so far that are questions: not blank, and not an exit
\* token once trimmed.
Questions ==
    { i \in 1..Len(lines) :
        /\ ~IsBlank(lines[i])
        /\ ~EqualsIgnoringCase(Trimmed(lines[i]), Quit)
        /\ ~EqualsIgnoringCase(Trimmed(lines[i]), <<"e", "x", "i", "t">>) }

(* C9: for every sequence of input lines (no operator interrupt), between  *)
(* turns one request has been sent and one block - the reply or the error  *)
(* report - printed for each question line read, none for a blank line,    *)
(* and an exit token ends the session with the farewell.                   *)
C9_OneBlockPerQuestion ==
    (signal = "none" /\ pc # "request") =>
        /\ requests = Cardinality(Questions)
        /\ replies + errors = requests
        /\ prompts + farewells = IF Started /\ build.ok THEN Len(lines) + 1 ELSE 0
        /\ pc = "done" => farewells = 1

(* C10: one transport mode for the whole process: the client and model are *)
(* built once at startup, every request uses them, and no step of the turn *)
(* loop rebuilds the client, changes the configuration or the mode.        *)
C10_OneClientForLife ==
    /\ [](Started =>
            /\ builds = 1
            /\ client = build.client
            /\ build.ok => /\ client.mode \in {"vertex", "api_key"}
                           /\ model = build.model
            /\ requests > 0 => /\ build.ok
                               /\ last_request.client = build.client
                               /\ last_request.model = build.model)
    /\ [][Started => /\ client' = client
                     /\ model' = model
                     /\ build' = build
                     /\ builds' = builds
                     /\ environ' = environ]_vars

C10_Witness ==
    /\ requests = MaxTurns
    /\ errors >= 1
    /\ client.mode = "vertex"
    /\ last_request.client = client

====
